---- MODULE Spec2Model ----
(***************************************************************************)
(* methfast: coverage-weighted methylation fraction per target interval.   *)
(* Model of src/main.rs: the interval table builder (parse_meth_bed), the  *)
(* target loader (parse_targets), the overlap aggregator (lower_bound_end, *)
(* compute_target_line) and the batch driver (run, main).                  *)
(*                                                                         *)
(* A text field is a token [s, n, d]: d = 0 is a non-numeric text s,       *)
(* d = 1 the decimal integer n, d > 1 the decimal number n/d.  An f32 is   *)
(* represented by the rational <<n, d>> (lowest terms) that it rounds.     *)
(***************************************************************************)
EXTENDS Integers, Sequences, FiniteSets, TLC

VARIABLES
    cols,        \* cli.frac_col, cli.cov_col, cli.meth_col, cli.unmeth_col
    nworkers,    \* size of the rayon pool used by par_iter
    phase,       \* position of run(): build, load, map, write, done, fatal, panic
    err,         \* the Err(..) that run() returned to main, "" when none
    line,        \* parse_meth_bed: fields of the line just read
    linenum,     \* parse_meth_bed: linenum
    prev_chrom,  \* parse_meth_bed: prev_chrom
    prev_start,  \* parse_meth_bed: prev_start
    prev_end,    \* parse_meth_bed: prev_end
    by_chrom,    \* parse_meth_bed: by_chrom, then ranges.by_chrom
    targets,     \* run: targets
    task,        \* per worker: index of the target it is mapping, 0 when idle
    claimed,     \* indices of the targets handed to a worker
    lines,       \* run: lines, one slot per target, <<>> while not yet produced
    out,         \* rows written to the output so far
    lb           \* lower_bound_end: its frame (intervals, start, lo, hi, pc)

vars == <<cols, nworkers, phase, err, line, linenum, prev_chrom, prev_start,
          prev_end, by_chrom, targets, task, claimed, lines, out, lb>>

(***************************************************************************)
(* Bounds of the model.                                                    *)
(***************************************************************************)
MaxLines == 3
MaxTargets == 2
MaxWorkers == 2
MaxLen == 3

(***************************************************************************)
(* Numbers.                                                                *)
(***************************************************************************)
I32Max == 2147483647

I32Min == -I32Max - 1

\* i32 addition leaves the 32-bit range
AddOverflows(a, b) ==
    \/ b > 0 /\ a > I32Max - b
    \/ b < 0 /\ a < I32Min - b

\* i32 addition as the release build computes it (two's complement wrap)
WrapAdd(a, b) ==
    IF b > 0 /\ a > I32Max - b THEN ((a - I32Max) - 1) + ((b - I32Max) - 1)
    ELSE IF b < 0 /\ a < I32Min - b THEN ((a + I32Max) + 1) + ((b + I32Max) + 1)
    ELSE a + b

Abs(x) == IF x < 0 THEN -x ELSE x

RECURSIVE GCD(_, _)
GCD(a, b) == IF b = 0 THEN a ELSE GCD(b, a % b)

\* the rational n/d in lowest terms, d > 0
Rat(n, d) ==
    IF n = 0 THEN <<0, 1>>
    ELSE LET g == GCD(Abs(n), Abs(d))
             s == IF d < 0 THEN -1 ELSE 1
         IN  <<s * (n \div g), s * (d \div g)>>

RatZero == <<0, 1>>

RatAdd(p, q) ==
    IF p[1] = 0 THEN q
    ELSE IF q[1] = 0 THEN p
    ELSE Rat(p[1] * q[2] + q[1] * p[2], p[2] * q[2])

\* fraction * (coverage as f32)
RatMulInt(p, k) == IF p[1] = 0 \/ k = 0 THEN RatZero ELSE Rat(p[1] * k, p[2])

\* numerator as f32 / (denominator as f32)
RatDivInt(p, k) == IF p[1] = 0 THEN RatZero ELSE Rat(p[1], p[2] * k)

(***************************************************************************)
(* Tokens and lossy parsing.                                               *)
(***************************************************************************)
Txt(s) == [s |-> s, n |-> 0, d |-> 0]

Num(n) == [s |-> "", n |-> n, d |-> 1]

Dec(n, d) == [s |-> "", n |-> n, d |-> d]

parse_i32_lossy(t) == IF t.d = 1 THEN t.n ELSE 0

parse_f32_lossy(t) == IF t.d = 0 THEN RatZero ELSE Rat(t.n, t.d)

MethInterval(start, end, fraction, coverage) ==
    [start |-> start, end |-> end, fraction |-> fraction, coverage |-> coverage]

TargetInterval(chrom, start, end) == [chrom |-> chrom, start |-> start, end |-> end]

(***************************************************************************)
(* Interval table builder: one iteration of the loop of parse_meth_bed.    *)
(***************************************************************************)
\* the sort-order test on the current record against the previous one
NotSorted(chrom, start) ==
    prev_start # -1 /\ chrom = prev_chrom /\ start < prev_end

\* both columns of a derivation mode are set and within the record
InRange(c1, c2, field_count) ==
    c1 > 0 /\ c1 <= field_count /\ c2 > 0 /\ c2 <= field_count

\* fraction of a count over a coverage
CountFraction(methylated, coverage) ==
    IF coverage > 0 THEN Rat(methylated, coverage) ELSE RatZero

\* Derive with the fraction + coverage mode tried first
DeriveFractionFirst(fields, c) ==
    LET field_count == Len(fields) IN
    IF InRange(c.cov_col, c.frac_col, field_count) THEN
        [ok |-> TRUE, fraction |-> parse_f32_lossy(fields[c.frac_col]),
         coverage |-> parse_i32_lossy(fields[c.cov_col])]
    ELSE IF InRange(c.meth_col, c.unmeth_col, field_count) THEN
        LET methylated == parse_i32_lossy(fields[c.meth_col])
            unmethylated == parse_i32_lossy(fields[c.unmeth_col])
            coverage == WrapAdd(methylated, unmethylated)
        IN  [ok |-> TRUE, fraction |-> CountFraction(methylated, coverage),
             coverage |-> coverage]
    ELSE IF InRange(c.meth_col, c.cov_col, field_count) THEN
        LET methylated == parse_i32_lossy(fields[c.meth_col])
            coverage == parse_i32_lossy(fields[c.cov_col])
        IN  [ok |-> TRUE, fraction |-> CountFraction(methylated, coverage),
             coverage |-> coverage]
    ELSE [ok |-> FALSE, fraction |-> RatZero, coverage |-> 0]

\* the (fraction, coverage) of a record, ok = FALSE for "invalid column indices"
Derive(fields, c) ==
    LET field_count == Len(fields) IN
    IF InRange(c.meth_col, c.unmeth_col, field_count) THEN
        LET methylated == parse_i32_lossy(fields[c.meth_col])
            unmethylated == parse_i32_lossy(fields[c.unmeth_col])
            coverage == WrapAdd(methylated, unmethylated)
        IN  [ok |-> TRUE, fraction |-> CountFraction(methylated, coverage),
             coverage |-> coverage]
    ELSE IF InRange(c.meth_col, c.cov_col, field_count) THEN
        LET methylated == parse_i32_lossy(fields[c.meth_col])
            coverage == parse_i32_lossy(fields[c.cov_col])
        IN  [ok |-> TRUE, fraction |-> CountFraction(methylated, coverage),
             coverage |-> coverage]
    ELSE IF InRange(c.cov_col, c.frac_col, field_count) THEN
        [ok |-> TRUE, fraction |-> parse_f32_lossy(fields[c.frac_col]),
         coverage |-> parse_i32_lossy(fields[c.cov_col])]
    ELSE [ok |-> FALSE, fraction |-> RatZero, coverage |-> 0]

\* by_chrom.entry(chrom).or_default().push(iv)
Push(table, chrom, iv) ==
    IF chrom \in DOMAIN table
    THEN [table EXCEPT ![chrom] = Append(@, iv)]
    ELSE [k \in DOMAIN table \cup {chrom} |->
            IF k = chrom THEN <<iv>> ELSE table[k]]

\* Fail with the error recorded and the loop going on
FailContinue(e) ==
    /\ err' = e
    /\ UNCHANGED <<phase, by_chrom>>

\* the Err of parse_meth_bed reaches main through `?`: the run ends there
Fail(e) ==
    /\ err' = e
    /\ phase' = "fatal"
    /\ by_chrom' = <<>>

BuildFrame == <<cols, nworkers, targets, task, claimed, lines, out, lb>>

\* read_line returned a line whose whitespace-separated fields are `fields`
ReadLine(fields) ==
    /\ phase = "build"
    /\ linenum < MaxLines
    /\ linenum' = linenum + 1
    /\ line' = fields
    /\ IF Len(fields) < 4 THEN
           UNCHANGED <<phase, err, prev_chrom, prev_start, prev_end, by_chrom>>
       ELSE
           LET chrom == fields[1].s
               start == parse_i32_lossy(fields[2])
               end == parse_i32_lossy(fields[3])
               d == Derive(fields, cols)
           IN  IF NotSorted(chrom, start) THEN
                   /\ Fail("sort")
                   /\ UNCHANGED <<prev_chrom, prev_start, prev_end>>
               ELSE IF ~d.ok THEN
                   /\ Fail("columns")
                   /\ UNCHANGED <<prev_chrom, prev_start, prev_end>>
               ELSE
                   /\ by_chrom' = Push(by_chrom, chrom,
                                       MethInterval(start, end, d.fraction, d.coverage))
                   /\ prev_chrom' = chrom
                   /\ prev_start' = start
                   /\ prev_end' = end
                   /\ UNCHANGED <<phase, err>>
    /\ UNCHANGED BuildFrame

\* read_line returned 0: parse_meth_bed returns Ok(MethRanges { by_chrom })
EndOfFile ==
    /\ phase = "build"
    /\ phase' = "load"
    /\ UNCHANGED <<err, line, linenum, prev_chrom, prev_start, prev_end, by_chrom>>
    /\ UNCHANGED BuildFrame

(***************************************************************************)
(* Target loader.                                                          *)
(***************************************************************************)
\* parse_targets over the lines of the target file, each split at tabs
RECURSIVE parse_targets(_)
parse_targets(file) ==
    IF file = <<>> THEN <<>>
    ELSE LET toks == Head(file)
             rest == parse_targets(Tail(file))
         IN  IF Len(toks) < 3 THEN rest
             ELSE <<TargetInterval(toks[1].s, parse_i32_lossy(toks[2]),
                                   parse_i32_lossy(toks[3]))>> \o rest

(***************************************************************************)
(* Overlap aggregator.                                                     *)
(***************************************************************************)
\* let mid = lo + (hi - lo) / 2   (0-based index)
Mid(lo, hi) == lo + (hi - lo) \div 2

\* LBIter with the comparison end < start
LBIterStrict(intervals, start, lo, hi) ==
    LET mid == Mid(lo, hi) IN
    IF intervals[mid + 1].end < start THEN <<mid + 1, hi>> ELSE <<lo, mid>>

\* one iteration of the loop of lower_bound_end: the next <<lo, hi>>
LBIter(intervals, start, lo, hi) ==
    LET mid == Mid(lo, hi) IN
    IF intervals[mid + 1].end <= start THEN <<mid + 1, hi>> ELSE <<lo, mid>>

RECURSIVE LBLoop(_, _, _, _)
LBLoop(intervals, start, lo, hi) ==
    IF lo < hi
    THEN LET n == LBIter(intervals, start, lo, hi)
         IN  LBLoop(intervals, start, n[1], n[2])
    ELSE lo

\* 0-based index returned by lower_bound_end(intervals, start)
lower_bound_end(intervals, start) == LBLoop(intervals, start, 0, Len(intervals))

\* the accumulators of compute_target_line; overflow records that an i32
\* addition left the 32-bit range (a panic where overflow checks are on)
Acc0 ==
    [num_positions |-> 0, sum_total_coverage |-> 0, sum_meth_coverage |-> RatZero,
     overflow |-> FALSE]

\* the body of the if iv.end > target.start
Accumulate(acc, iv) ==
    [num_positions |-> acc.num_positions + 1,
     sum_total_coverage |-> WrapAdd(acc.sum_total_coverage, iv.coverage),
     sum_meth_coverage |-> RatAdd(acc.sum_meth_coverage,
                                  RatMulInt(iv.fraction, iv.coverage)),
     overflow |-> acc.overflow \/ AddOverflows(acc.sum_total_coverage, iv.coverage)]

\* Scan with the break at iv.start > target.end
RECURSIVE ScanInclusive(_, _, _, _)
ScanInclusive(intervals, i, target, acc) ==
    IF i > Len(intervals) THEN acc
    ELSE LET iv == intervals[i] IN
         IF iv.start > target.end THEN acc
         ELSE IF iv.end > target.start
              THEN ScanInclusive(intervals, i + 1, target, Accumulate(acc, iv))
              ELSE ScanInclusive(intervals, i + 1, target, acc)

\* for iv in &intervals[idx..], from the 1-based position i
RECURSIVE Scan(_, _, _, _)
Scan(intervals, i, target, acc) ==
    IF i > Len(intervals) THEN acc
    ELSE LET iv == intervals[i] IN
         IF iv.start >= target.end THEN acc
         ELSE IF iv.end > target.start
              THEN Scan(intervals, i + 1, target, Accumulate(acc, iv))
              ELSE Scan(intervals, i + 1, target, acc)

\* the accumulators at the end of the if let Some(intervals) block
Aggregate(ranges, target) ==
    IF target.chrom \in DOMAIN ranges
    THEN LET intervals == ranges[target.chrom]
             idx == lower_bound_end(intervals, target.start)
         IN  Scan(intervals, idx + 1, target, Acc0)
    ELSE Acc0

weighted_fraction(acc) ==
    IF acc.sum_total_coverage > 0
    THEN RatDivInt(acc.sum_meth_coverage, acc.sum_total_coverage)
    ELSE RatZero

\* {:.4} of a value: its ten-thousandths, rounded half to even
Format4(r) ==
    LET a == Abs(r[1]) * 10000
        q == a \div r[2]
        m == a % r[2]
        up == IF 2 * m > r[2] \/ (2 * m = r[2] /\ q % 2 = 1) THEN q + 1 ELSE q
    IN  IF r[1] < 0 THEN -up ELSE up

\* the formatted row: chrom, start, end, num_positions, total_coverage, fraction
FormatRow(target, acc) ==
    <<target.chrom, target.start, target.end, acc.num_positions,
      acc.sum_total_coverage, Format4(weighted_fraction(acc))>>

compute_target_line(ranges, target) == FormatRow(target, Aggregate(ranges, target))

(***************************************************************************)
(* Batch driver: run() after parse_meth_bed returned Ok.                   *)
(***************************************************************************)
Workers == 1..nworkers

EmptySlot == <<>>

\* let targets = parse_targets(..)?; the parallel map is set up over them
LoadTargets(file) ==
    /\ phase = "load"
    /\ targets' = parse_targets(file)
    /\ lines' = [k \in 1..Len(targets') |-> EmptySlot]
    /\ phase' = "map"
    /\ UNCHANGED <<cols, nworkers, err, line, linenum, prev_chrom, prev_start,
                   prev_end, by_chrom, task, claimed, out, lb>>

\* an idle worker of the pool takes a target nobody has taken
StartTask(w, k) ==
    /\ phase = "map"
    /\ task[w] = 0
    /\ k \in (1..Len(targets)) \ claimed
    /\ task' = [task EXCEPT ![w] = k]
    /\ claimed' = claimed \cup {k}
    /\ UNCHANGED <<cols, nworkers, phase, err, line, linenum, prev_chrom,
                   prev_start, prev_end, by_chrom, targets, lines, out, lb>>

\* SlotOf with the rows stored in the order the tasks finish
SlotOfCompletion(k) == Cardinality({ j \in 1..Len(lines) : Len(lines[j]) > 0 }) + 1

\* the slot of the collected Vec that receives the row of target k
SlotOf(k) == k

\* the worker finishes map(|target| compute_target_line(&ranges, target));
\* an overflowing accumulation panics where overflow checks are compiled in
FinishTask(w) ==
    /\ phase = "map"
    /\ task[w] # 0
    /\ LET k == task[w]
           acc == Aggregate(by_chrom, targets[k])
       IN  \E checked \in (IF acc.overflow THEN BOOLEAN ELSE {FALSE}) :
               IF checked
               THEN /\ phase' = "panic"
                    /\ UNCHANGED lines
               ELSE /\ lines' = [lines EXCEPT ![SlotOf(k)] =
                                    compute_target_line(by_chrom, targets[k])]
                    /\ UNCHANGED phase
    /\ task' = [task EXCEPT ![w] = 0]
    /\ UNCHANGED <<cols, nworkers, err, line, linenum, prev_chrom, prev_start,
                   prev_end, by_chrom, targets, claimed, out, lb>>

\* collect() returns once every target has been mapped
Collect ==
    /\ phase = "map"
    /\ claimed = 1..Len(targets)
    /\ \A w \in Workers : task[w] = 0
    /\ phase' = "write"
    /\ UNCHANGED <<cols, nworkers, err, line, linenum, prev_chrom, prev_start,
                   prev_end, by_chrom, targets, task, claimed, lines, out, lb>>

\* writeln!(out, "{line}") for the next line of lines
WriteLine ==
    /\ phase = "write"
    /\ Len(out) < Len(lines)
    /\ out' = Append(out, lines[Len(out) + 1])
    /\ UNCHANGED <<cols, nworkers, phase, err, line, linenum, prev_chrom,
                   prev_start, prev_end, by_chrom, targets, task, claimed, lines, lb>>

\* out.flush()?; Ok(())
Finish ==
    /\ phase = "write"
    /\ Len(out) = Len(lines)
    /\ phase' = "done"
    /\ UNCHANGED <<cols, nworkers, err, line, linenum, prev_chrom, prev_start,
                   prev_end, by_chrom, targets, task, claimed, lines, out, lb>>

(***************************************************************************)
(* lower_bound_end run one loop iteration at a time.                       *)
(***************************************************************************)
LBIdle == [intervals |-> <<>>, start |-> 0, lo |-> 0, hi |-> 0, pc |-> "idle"]

LBStep ==
    /\ lb.pc = "loop"
    /\ lb.lo < lb.hi
    /\ LET n == LBIter(lb.intervals, lb.start, lb.lo, lb.hi)
       IN  lb' = [lb EXCEPT !.lo = n[1], !.hi = n[2]]
    /\ UNCHANGED <<cols, nworkers, phase, err, line, linenum, prev_chrom, prev_start,
                   prev_end, by_chrom, targets, task, claimed, lines, out>>

LBReturn ==
    /\ lb.pc = "loop"
    /\ ~(lb.lo < lb.hi)
    /\ lb' = [lb EXCEPT !.pc = "done"]
    /\ UNCHANGED <<cols, nworkers, phase, err, line, linenum, prev_chrom, prev_start,
                   prev_end, by_chrom, targets, task, claimed, lines, out>>

(***************************************************************************)
(* Initial states and inputs.                                              *)
(***************************************************************************)
Cols(f, c, m, u) == [frac_col |-> f, cov_col |-> c, meth_col |-> m, unmeth_col |-> u]

\* the defaults of the command line: -f 4 -c 5 -m 0 -u 0
DefaultCols == Cols(4, 5, 0, 0)

InitRun ==
    /\ phase = "build"
    /\ err = ""
    /\ line = <<>>
    /\ linenum = 0
    /\ prev_chrom = ""
    /\ prev_start = -1
    /\ prev_end = -1
    /\ by_chrom = <<>>
    /\ targets = <<>>
    /\ task = [w \in Workers |-> 0]
    /\ claimed = {}
    /\ lines = <<>>
    /\ out = <<>>

\* a methylation record: chrom, start, end, fraction, coverage
Rec(chrom, start, end, frac, cov) == <<Txt(chrom), start, end, frac, cov>>

Half == Dec(1, 2)

\* records of the whole run: two sorted records, a 4-field one, a short one
RunRecords ==
    { Rec("chr1", Num(0), Num(1), Num(1), Num(1)),
      Rec("chr1", Num(1), Num(2), Half, Num(2)),
      <<Txt("chr1"), Num(2), Num(3), Half>>,
      <<Txt("chr1"), Num(0), Num(1)>> }

TargetLine(chrom, start, end) == <<Txt(chrom), Num(start), Num(end)>>

RunTargetLines ==
    { TargetLine("chr1", 0, 1), TargetLine("chr1", 0, 2), TargetLine("chr2", 0, 1),
      <<Txt("chr1"), Num(0)>> }

\* the files of at most n lines over a set of lines
Files(S, n) == UNION { [1..k -> S] : k \in 0..n }

Init ==
    /\ cols = DefaultCols
    /\ nworkers \in 1..MaxWorkers
    /\ lb = LBIdle
    /\ InitRun

Next ==
    \/ \E f \in RunRecords : ReadLine(f)
    \/ EndOfFile
    \/ \E file \in Files(RunTargetLines, MaxTargets) : LoadTargets(file)
    \/ \E w \in Workers, k \in 1..MaxTargets : StartTask(w, k)
    \/ \E w \in Workers : FinishTask(w)
    \/ Collect
    \/ WriteLine
    \/ Finish

Spec == Init /\ [][Next]_vars

\* coordinates as written in the file: junk, negative, and small positions
CoordTokens == {Txt("x"), Num(-1), Num(0), Num(1), Num(2)}

BuildRecords ==
    { Rec(c, s, e, Half, Num(1)) : c \in {"chr1", "chr2"}, s \in CoordTokens,
                                   e \in CoordTokens }
    \cup { <<Txt("chr1"), Num(0), Num(1)>> }

InitBuild ==
    /\ cols = DefaultCols
    /\ nworkers = 1
    /\ lb = LBIdle
    /\ InitRun

NextBuild ==
    \/ \E f \in BuildRecords : ReadLine(f)
    \/ EndOfFile

SpecBuild == InitBuild /\ [][NextBuild]_vars

\* every column configuration over the columns 0 (unset) to MaxCol
MaxCol == 5

AllCols == { Cols(f, c, m, u) : f \in 0..MaxCol, c \in 0..MaxCol, m \in 0..MaxCol,
                                u \in 0..MaxCol }

\* records of 3, 4 and 5 fields on one position
DeriveRecords ==
    { <<Txt("chr1"), Num(4), Num(5), a>> : a \in {Num(3), Half} }
    \cup { <<Txt("chr1"), Num(4), Num(5), a, b>> : a \in {Num(3), Half},
                                                  b \in {Num(0), Num(2)} }
    \cup { <<Txt("chr1"), Num(4), Num(5)>> }

InitDerive ==
    /\ cols \in AllCols
    /\ nworkers = 1
    /\ lb = LBIdle
    /\ InitRun

NextDerive ==
    \/ \E f \in DeriveRecords : ReadLine(f)
    \/ EndOfFile

SpecDerive == InitDerive /\ [][NextDerive]_vars

\* records of one query: well-formed positions (0 <= start < end) of chr1
\* with coverage 0, 1 and the largest i32, and one record of chr2
MaxPos == 2

Positions == { p \in (0..MaxPos) \X (0..MaxPos) : p[1] < p[2] }

QueryRecords ==
    { Rec("chr1", Num(p[1]), Num(p[2]), Half, Num(c)) : p \in Positions, c \in {0, 1} }
    \cup { Rec("chr1", Num(p[1]), Num(p[2]), Num(0), Num(I32Max)) : p \in Positions }
    \cup { Rec("chr2", Num(0), Num(1), Half, Num(1)) }

QueryTargets ==
    { TargetLine(c, p[1], p[2]) : c \in {"chr1", "chr3"}, p \in Positions }

NextQuery ==
    \/ \E f \in QueryRecords : ReadLine(f)
    \/ EndOfFile
    \/ \E t \in QueryTargets : LoadTargets(<<t>>)
    \/ \E w \in Workers : StartTask(w, 1)
    \/ \E w \in Workers : FinishTask(w)

SpecQuery == InitBuild /\ [][NextQuery]_vars

\* the sequences of at most MaxLen intervals [e-1, e) with non-decreasing ends
EndValues == {2, 6, 11}

Anchors == {0, 2, 5, 6, 11}

SortedEnds ==
    { s \in Files(EndValues, MaxLen) : \A i \in 1..Len(s) - 1 : s[i] <= s[i + 1] }

InitLB ==
    /\ cols = DefaultCols
    /\ nworkers = 1
    /\ InitRun
    /\ \E ends \in SortedEnds, a \in Anchors :
          lb = [intervals |-> [i \in 1..Len(ends) |->
                                  MethInterval(ends[i] - 1, ends[i], RatZero, 1)],
                start |-> a, lo |-> 0, hi |-> Len(ends), pc |-> "loop"]

NextLB == LBStep \/ LBReturn

SpecLB == InitLB /\ [][NextLB]_vars

(***************************************************************************)
(* Properties.                                                             *)
(***************************************************************************)
Slots == 1..Len(lines)

Filled(k) == Len(lines[k]) > 0

\* half-open overlap of a stored interval with a target
Overlaps(iv, t) == iv.start < t.end /\ iv.end > t.start

Stored(t) == IF t.chrom \in DOMAIN by_chrom THEN by_chrom[t.chrom] ELSE <<>>

OverlapIdx(t) == { i \in 1..Len(Stored(t)) : Overlaps(Stored(t)[i], t) }

\* the i32 sum of the coverage of the intervals of S, in stored order
RECURSIVE CoverageSum(_, _, _)
CoverageSum(ivs, i, S) ==
    IF i = 0 THEN 0
    ELSE IF i \in S THEN WrapAdd(CoverageSum(ivs, i - 1, S), ivs[i].coverage)
    ELSE CoverageSum(ivs, i - 1, S)

\* C1: every produced row reports as num_positions the number of ALL stored
\* intervals of the target's chromosome that overlap the target, and as
\* total_coverage the sum of the coverage of exactly those intervals.
C1_AllOverlapsCounted ==
    \A k \in Slots : Filled(k) =>
        LET t == targets[k] IN
        /\ lines[k][4] = Cardinality(OverlapIdx(t))
        /\ lines[k][5] = CoverageSum(Stored(t), Len(Stored(t)), OverlapIdx(t))

\* C2: once parse_meth_bed has returned Ok, the end values of every
\* chromosome's stored sequence are non-decreasing in stored order.
C2_EndsNonDecreasing ==
    phase = "load" =>
        \A c \in DOMAIN by_chrom : \A i, j \in 1..Len(by_chrom[c]) :
            i < j => by_chrom[c][i].end <= by_chrom[c][j].end

\* the step reads a record of at least 4 fields
ReadsRecord == phase = "build" /\ linenum' = linenum + 1 /\ Len(line') >= 4

\* C3: a record of a chromosome that already has stored records, read after
\* a record of another chromosome (re-interleaving), is rejected with the
\* sort error.
C3_ReinterleavingRejected ==
    [][ (/\ ReadsRecord
         /\ line'[1].s \in DOMAIN by_chrom
         /\ line'[1].s # prev_chrom)
        => (phase' = "fatal" /\ err' = "sort") ]_vars

\* C8: a record of at least 4 fields on the chromosome of the previous such
\* record and with start < that record's end fails with the sort error,
\* whatever the previous start and end; a record on another chromosome never
\* fails the sort check; a record of fewer than 4 fields changes neither the
\* remembered previous record nor the table.
C8_SortCheck ==
    [][ /\ (/\ ReadsRecord
            /\ DOMAIN by_chrom # {}
            /\ line'[1].s = prev_chrom
            /\ parse_i32_lossy(line'[2]) < prev_end)
           => (phase' = "fatal" /\ err' = "sort")
        /\ (ReadsRecord /\ line'[1].s # prev_chrom) => err' # "sort"
        /\ (phase = "build" /\ linenum' = linenum + 1 /\ Len(line') < 4)
           => UNCHANGED <<prev_chrom, prev_start, prev_end, by_chrom, phase, err>>
      ]_vars

\* C10: the running i32 accumulation of total_coverage never leaves the
\* 32-bit range: no aggregation aborts and no reported total is a wrapped one.
C10_NoOverflow ==
    /\ phase # "panic"
    /\ \A k \in Slots : Filled(k) => ~Aggregate(by_chrom, targets[k]).overflow

\* the row of target k as a sequential map over the targets computes it
RowOf(k) == compute_target_line(by_chrom, targets[k])

InFlight == { task[w] : w \in Workers } \ {0}

\* C4: whatever the number of workers and the interleaving of their tasks,
\* the collected output has one row per target, row k is the aggregate of
\* target k (the output of a single-worker run), and no task changes the
\* interval table or the slot of another task.
C4_OrderPreserved ==
    /\ [](phase \in {"map", "write", "done"} =>
            /\ Len(lines) = Len(targets)
            /\ \A k \in Slots :
                  IF k \in claimed \ InFlight THEN lines[k] = RowOf(k)
                  ELSE ~Filled(k))
    /\ [](phase \in {"write", "done"} =>
            /\ \A k \in Slots : lines[k] = RowOf(k)
            /\ \A k \in 1..Len(out) : out[k] = RowOf(k)
            /\ (phase = "done" => Len(out) = Len(targets)))
    /\ [][phase = "map" =>
            /\ by_chrom' = by_chrom
            /\ \A w \in Workers : (task[w] # 0 /\ task'[w] = 0) =>
                  \A k \in Slots \ {task[w]} : lines'[k] = lines[k]]_vars

\* target 2 has been mapped before target 1, to a different row, by one of
\* two workers
C4_Witness ==
    /\ phase = "map"
    /\ nworkers = 2
    /\ Len(targets) = 2
    /\ Filled(2)
    /\ ~Filled(1)
    /\ 1 \in InFlight
    /\ lines[2][4] # RowOf(1)[4]

LBLen == Len(lb.intervals)

\* C5: on intervals with non-decreasing ends the search returns the smallest
\* index whose end exceeds the anchor, or the length when there is none; it
\* only reads indices 0..len-1, and every iteration narrows hi - lo.  Ends
\* [2,6,11] give 0, 1, 2, 3 for the anchors 0, 2, 6, 11.
C5_LowerBound ==
    /\ [](lb.pc = "loop" /\ lb.lo < lb.hi => Mid(lb.lo, lb.hi) \in 0..LBLen - 1)
    /\ [](lb.pc = "done" =>
            /\ lb.lo \in 0..LBLen
            /\ \A i \in 1..lb.lo : lb.intervals[i].end <= lb.start
            /\ lb.lo < LBLen => lb.intervals[lb.lo + 1].end > lb.start
            /\ lower_bound_end(lb.intervals, lb.start) = lb.lo
            /\ [i \in 1..LBLen |-> lb.intervals[i].end] = <<2, 6, 11>> =>
                  /\ lb.start = 0 => lb.lo = 0
                  /\ lb.start = 2 => lb.lo = 1
                  /\ lb.start = 6 => lb.lo = 2
                  /\ lb.start = 11 => lb.lo = 3)
    /\ [][lb.pc = "loop" /\ lb'.pc = "loop" =>
            /\ lb'.hi - lb'.lo < lb.hi - lb.lo
            /\ 0 <= lb'.lo /\ lb'.lo <= lb'.hi /\ lb'.hi <= LBLen]_vars

\* the search over ends [2,6,11] for the anchor 6 has returned 2
C5_Witness ==
    /\ lb.pc = "done"
    /\ LBLen = 3
    /\ [i \in 1..LBLen |-> lb.intervals[i].end] = <<2, 6, 11>>
    /\ lb.start = 6
    /\ lb.lo = 2

\* the target of slot k is on a chromosome without records, or no stored
\* interval overlaps it
ZeroCase(t) == t.chrom \notin DOMAIN by_chrom \/ OverlapIdx(t) = {}

\* C6: a target on an absent chromosome, or one that no stored interval
\* overlaps, gets the zero aggregate and its aggregation cannot abort; a
\* total_coverage of 0 always comes with a weighted_fraction of 0.
C6_ZeroAggregate ==
    /\ \A k \in 1..Len(targets) :
          ZeroCase(targets[k]) => ~Aggregate(by_chrom, targets[k]).overflow
    /\ \A k \in Slots : Filled(k) =>
          /\ ZeroCase(targets[k]) =>
                lines[k][4] = 0 /\ lines[k][5] = 0 /\ lines[k][6] = 0
          /\ lines[k][5] = 0 => lines[k][6] = 0

\* a target on a chromosome with records, none of which overlaps it, has
\* been aggregated
C6_Witness ==
    /\ Len(lines) = 1
    /\ Filled(1)
    /\ targets[1].chrom \in DOMAIN by_chrom
    /\ OverlapIdx(targets[1]) = {}
    /\ Len(by_chrom[targets[1].chrom]) >= 2

\* C7: a fatal error is the sort error or the column error of the table
\* builder, it ends the run before any target is taken and any row written;
\* rows are written only after the table was built and the targets loaded
\* without error.
C7_FatalBeforeOutput ==
    /\ phase = "fatal" =>
          /\ err \in {"sort", "columns"}
          /\ claimed = {}
          /\ lines = <<>>
          /\ out = <<>>
    /\ err # "" => phase = "fatal"
    /\ (claimed # {} \/ Len(out) > 0) =>
          /\ err = ""
          /\ phase \in {"map", "write", "done"}
    /\ Len(out) > 0 =>
          /\ phase \in {"write", "done"}
          /\ Len(lines) = Len(targets)
          /\ \A k \in Slots : Filled(k)

\* the sort error on the third line, after two records were stored
C7_Witness ==
    /\ phase = "fatal"
    /\ err = "sort"
    /\ linenum = 3

\* both columns of a mode are set and within the record just read
Sat(c1, c2) == InRange(c1, c2, Len(line))

LastStored == by_chrom[line[1].s][Len(by_chrom[line[1].s])]

\* the counts and values of the record just read, by column
IntAt(c) == parse_i32_lossy(line[c])

\* C9: the values stored for a record are those of the first satisfiable
\* mode among (1) methylated + unmethylated, (2) methylated + coverage,
\* (3) fraction + coverage; when none is satisfiable the build fails with
\* the column error and there is no table.
C9_DerivationMode ==
    (linenum > 0 /\ Len(line) >= 4 /\ err # "sort") =>
        IF Sat(cols.meth_col, cols.unmeth_col) THEN
            LET coverage == IntAt(cols.meth_col) + IntAt(cols.unmeth_col) IN
            /\ err = ""
            /\ LastStored.coverage = coverage
            /\ LastStored.fraction =
                  IF coverage > 0 THEN Rat(IntAt(cols.meth_col), coverage) ELSE RatZero
        ELSE IF Sat(cols.meth_col, cols.cov_col) THEN
            LET coverage == IntAt(cols.cov_col) IN
            /\ err = ""
            /\ LastStored.coverage = coverage
            /\ LastStored.fraction =
                  IF coverage > 0 THEN Rat(IntAt(cols.meth_col), coverage) ELSE RatZero
        ELSE IF Sat(cols.cov_col, cols.frac_col) THEN
            /\ err = ""
            /\ LastStored.coverage = IntAt(cols.cov_col)
            /\ LastStored.fraction = parse_f32_lossy(line[cols.frac_col])
        ELSE
            /\ err = "columns"
            /\ phase = "fatal"
            /\ DOMAIN by_chrom = {}

\* a record that satisfies both the count mode and the fraction mode has
\* been stored with the values of the count mode
C9_Witness ==
    /\ linenum = 1
    /\ Len(line) = 5
    /\ err = ""
    /\ cols = Cols(4, 5, 4, 5)
    /\ line[4] = Num(3)
    /\ line[5] = Num(2)
    /\ LastStored.coverage = 5
    /\ LastStored.fraction = <<3, 5>>

====
